---- MODULE Spec2Model ----
(***************************************************************************)
(* Model of book_search_api/book_search_api.py: the ISBN converter         *)
(* (only_number, isbn10_to_isbn13, isbn13_to_isbn10, calc_both_isbn) and   *)
(* the provider clients (OpenLibraryAPI, GoogleBooksAPI, NDLAPI,           *)
(* OpenBDAPI).                                                             *)
(*                                                                         *)
(* A Python str is a sequence of one-character strings.  A call ends in a  *)
(* record that says whether it returned or raised.                         *)
(***************************************************************************)
EXTENDS Integers, Sequences, FiniteSets, TLC

VARIABLES fn, arg, result, client, net, gets, log

vars == <<fn, arg, result, client, net, gets, log>>

-----------------------------------------------------------------------------
(* Bounds of the model.                                                    *)

\* free body digits of the enumerated ISBNs range over 0..MaxDigit
MaxDigit == 8
\* arbitrary strings over ShortAlphabet are enumerated up to this length
MaxShortLen == 3

-----------------------------------------------------------------------------
(* Characters and Python's built-in conversions.                           *)

AsciiDigits == <<"0", "1", "2", "3", "4", "5", "6", "7", "8", "9">>

AsciiDigitSet == {AsciiDigits[i] : i \in 1..10}

\* "U+0663" stands for ARABIC-INDIC DIGIT THREE, a non-ASCII character for
\* which str.isdecimal is true and int() is 3.
DecimalChars == AsciiDigitSet \cup {"U+0663"}

\* str.isdecimal on one character
isdecimal(c) == c \in DecimalChars

\* int(digit) on one decimal character; int() of any other character raises
\* in Python; the callers only pass characters that only_number kept, so the
\* other characters are left undefined here.
int(c) ==
    CASE c = "U+0663" -> 3
      [] c \in AsciiDigitSet -> (CHOOSE i \in 0..9 : AsciiDigits[i + 1] = c)

\* str(n) of a non-negative int: its decimal digits
RECURSIVE IntStr(_)
IntStr(n) ==
    IF n < 10 THEN <<AsciiDigits[n + 1]>>
    ELSE IntStr(n \div 10) \o <<AsciiDigits[(n % 10) + 1]>>

\* Python values handed to the functions.  An int is kept as a sign and its
\* decimal digits (most significant first, no leading zero), since a 13 digit
\* ISBN does not fit 32 bit integers.
PyStr(s) == [type |-> "str", s |-> s, neg |-> FALSE, mag |-> <<>>]
PyInt(neg, mag) == [type |-> "int", s |-> <<>>, neg |-> neg, mag |-> mag]
PyTrue == [type |-> "bool", s |-> <<>>, neg |-> FALSE, mag |-> <<1>>]
PyNone == [type |-> "NoneType", s |-> <<>>, neg |-> FALSE, mag |-> <<>>]

\* isinstance(v, int): bool is a subclass of int
IsInstanceInt(v) == v.type \in {"int", "bool"}

IsInstanceStr(v) == v.type = "str"

\* str(v)
str(v) ==
    CASE v.type = "str" -> v.s
      [] v.type = "int" ->
            (IF v.neg THEN <<"-">> ELSE <<>>)
               \o [i \in 1..Len(v.mag) |-> AsciiDigits[v.mag[i] + 1]]
      [] v.type = "bool" -> <<"T", "r", "u", "e">>
      [] v.type = "NoneType" -> <<"N", "o", "n", "e">>

\* How a call ends.
Return(v) == [kind |-> "return", exc |-> "", msg |-> "", val |-> v]

Raise(e, m) == [kind |-> "raise", exc |-> e, msg |-> m, val |-> <<>>]

NoResult == [kind |-> "none", exc |-> "", msg |-> "", val |-> <<>>]

-----------------------------------------------------------------------------
(* The ISBN converter.                                                     *)

\* only_number: number[-1] raises IndexError on the empty string.
only_number(number) ==
    IF Len(number) = 0
    THEN Raise("IndexError", "string index out of range")
    ELSE LET isX  == number[Len(number)] = "X"
             rest == IF isX THEN SubSeq(number, 1, Len(number) - 1) ELSE number
             last == IF isX THEN <<"X">> ELSE <<>>
         IN  Return(SelectSeq(rest, isdecimal) \o last)

\* the loop of isbn10_to_isbn13 over the first n characters of the body
RECURSIVE Isbn13Sum(_, _)
Isbn13Sum(body, n) ==
    IF n = 0 THEN 0
    ELSE Isbn13Sum(body, n - 1)
           + int(body[n]) * (IF (n - 1) % 2 = 0 THEN 1 ELSE 3)

Isbn13CheckSwapped(body) ==
    LET RECURSIVE S(_)
        S(n) == IF n = 0 THEN 0
                ELSE S(n - 1) + int(body[n]) * (IF (n - 1) % 2 = 0 THEN 3 ELSE 1)
    IN  (10 - (S(Len(body)) % 10)) % 10

\* check_digit of isbn10_to_isbn13
Isbn13Check(body) == (10 - (Isbn13Sum(body, Len(body)) % 10)) % 10

isbn10_to_isbn13(v) ==
    LET n == only_number(str(v))
    IN  IF n.kind = "raise" THEN n
        ELSE IF Len(n.val) # 10
        THEN Raise("ValueError", "isbn10 length")
        ELSE LET isbn13_body == <<"9", "7", "8">> \o SubSeq(n.val, 1, Len(n.val) - 1)
             IN  Return(isbn13_body \o IntStr(Isbn13Check(isbn13_body)))

\* the loop of isbn13_to_isbn10 over the first n characters of the body
RECURSIVE Isbn10Sum(_, _)
Isbn10Sum(body, n) ==
    IF n = 0 THEN 0
    ELSE Isbn10Sum(body, n - 1) + int(body[n]) * (10 - (n - 1))

Isbn10CheckOffByOne(body) ==
    LET RECURSIVE S(_)
        S(n) == IF n = 0 THEN 0
                ELSE S(n - 1) + int(body[n]) * (10 - n)
    IN  (11 - (S(Len(body)) % 11)) % 11

\* check_digit of isbn13_to_isbn10, before it is rendered
Isbn10Check(body) == (11 - (Isbn10Sum(body, Len(body)) % 11)) % 11

RenderCheck10NoX(c) == IntStr(c)

\* the check digit as text: "X" for 10, str(check_digit) otherwise
RenderCheck10(c) == IF c = 10 THEN <<"X">> ELSE IntStr(c)

startswith978(s) == Len(s) >= 3 /\ SubSeq(s, 1, 3) = <<"9", "7", "8">>

isbn13_to_isbn10_AnyPrefix(v) ==
    LET n == only_number(str(v))
    IN  IF n.kind = "raise" THEN n
        ELSE IF Len(n.val) # 13
        THEN Raise("ValueError", "isbn13 format")
        ELSE LET isbn10_body == SubSeq(n.val, 4, Len(n.val) - 1)
             IN  Return(isbn10_body \o RenderCheck10(Isbn10Check(isbn10_body)))

isbn13_to_isbn10_SliceFrom2(v) ==
    LET n == only_number(str(v))
    IN  IF n.kind = "raise" THEN n
        ELSE IF Len(n.val) # 13 \/ ~startswith978(n.val)
        THEN Raise("ValueError", "isbn13 format")
        ELSE LET isbn10_body == SubSeq(n.val, 3, Len(n.val) - 1)
             IN  Return(isbn10_body \o RenderCheck10(Isbn10Check(isbn10_body)))

isbn13_to_isbn10(v) ==
    LET n == only_number(str(v))
    IN  IF n.kind = "raise" THEN n
        ELSE IF Len(n.val) # 13 \/ ~startswith978(n.val)
        THEN Raise("ValueError", "isbn13 format")
        ELSE LET isbn10_body == SubSeq(n.val, 4, Len(n.val) - 1)
             IN  Return(isbn10_body \o RenderCheck10(Isbn10Check(isbn10_body)))

calc_both_isbn_Swapped(v) ==
    IF ~IsInstanceInt(v) /\ ~IsInstanceStr(v)
    THEN Raise("ValueError", "str or int required")
    ELSE LET n == only_number(str(v))
         IN  IF n.kind = "raise" THEN n
             ELSE IF Len(n.val) = 10
             THEN LET r == isbn10_to_isbn13(PyStr(n.val))
                  IN  IF r.kind = "raise" THEN r ELSE Return(<<r.val, n.val>>)
             ELSE IF Len(n.val) = 13
             THEN LET r == isbn13_to_isbn10(PyStr(n.val))
                  IN  IF r.kind = "raise" THEN r ELSE Return(<<n.val, r.val>>)
             ELSE Raise("ValueError", "isbn digits")

calc_both_isbn(v) ==
    IF ~IsInstanceInt(v) /\ ~IsInstanceStr(v)
    THEN Raise("ValueError", "str or int required")
    ELSE LET n == only_number(str(v))
         IN  IF n.kind = "raise" THEN n
             ELSE IF Len(n.val) = 10
             THEN LET r == isbn10_to_isbn13(PyStr(n.val))
                  IN  IF r.kind = "raise" THEN r ELSE Return(<<n.val, r.val>>)
             ELSE IF Len(n.val) = 13
             THEN LET r == isbn13_to_isbn10(PyStr(n.val))
                  IN  IF r.kind = "raise" THEN r ELSE Return(<<r.val, n.val>>)
             ELSE Raise("ValueError", "isbn digits")

-----------------------------------------------------------------------------
(* The provider clients.                                                   *)

Providers == {"OpenLibraryAPI", "GoogleBooksAPI", "NDLAPI", "OpenBDAPI"}

\* self.base_url, set by each __init__
base_url(provider) ==
    CASE provider = "OpenLibraryAPI" -> "https://openlibrary.org"
      [] provider = "GoogleBooksAPI" -> "https://www.googleapis.com/books/v1"
      [] provider = "NDLAPI" -> "https://iss.ndl.go.jp/api/sru"
      [] provider = "OpenBDAPI" -> "https://api.openbd.jp/v1"

\* __init__(self, timeout=1, verbose=False)
NewClient(provider, timeout, verbose) ==
    [provider |-> provider, base_url |-> base_url(provider),
     timeout |-> timeout, verbose |-> verbose]

\* What requests.get does: it raises, or it hands back a response.
NoNet == [outcome |-> "none", status |-> 0, fmt |-> "", doc |-> ""]

NetOutcomes ==
    {[outcome |-> o, status |-> 0, fmt |-> "", doc |-> ""] :
        o \in {"Timeout", "ConnectionError", "OtherException"}}
    \cup
    {[outcome |-> "response", status |-> st, fmt |-> f, doc |-> d] :
        st \in {200, 404, 500}, f \in {"json", "xml", "html"},
        d \in {"doc1", "doc2"}}

\* response.json(): the decoded document, or JSONDecodeError on a body that
\* is not JSON
response_json(r) ==
    IF r.fmt = "json" THEN Return(r.doc)
    ELSE Raise("JSONDecodeError", "Expecting value")

\* xmltodict.parse(response.text): the parsed document, or ExpatError on a
\* body that is not XML
xmltodict_parse(r) ==
    IF r.fmt = "xml" THEN Return(r.doc)
    ELSE Raise("ExpatError", "syntax error")

None == "None"

\* One lookup: the GET inside try/except, then the status test.  parse is
\* "json" or "xml".  The outcome is [result, gets, log].
Lookup(self, url, params, start, parse, n) ==
    LET get == [url |-> url, params |-> params, timeout |-> self.timeout]
        V(m) == IF self.verbose THEN <<m>> ELSE <<>>
    IN  CASE n.outcome = "Timeout" ->
                [result |-> Return(None), gets |-> <<get>>,
                 log |-> V(start) \o V("Request timed out")]
          [] n.outcome = "ConnectionError" ->
                [result |-> Return(None), gets |-> <<get>>,
                 log |-> V(start) \o V("Connection error")]
          [] n.outcome = "OtherException" ->
                [result |-> Return(None), gets |-> <<get>>,
                 log |-> V(start) \o V("Unknown error")]
          [] n.outcome = "response" /\ n.status = 200 ->
                [result |-> IF parse = "json" THEN response_json(n)
                            ELSE xmltodict_parse(n),
                 gets |-> <<get>>,
                 log |-> V(start) \o V("Request succeeded")]
          [] n.outcome = "response" /\ n.status # 200 ->
                [result |-> Return(None), gets |-> <<get>>,
                 log |-> V(start) \o V("Request failed")]

NoParams == <<>>

OpenLibraryAPI_isbn_search(self, isbn, n) ==
    Lookup(self, <<self.base_url, "/isbn/">> \o str(isbn) \o <<".json">>,
           NoParams, "Searching for book with ISBN", "json", n)

OpenLibraryAPI_author_search(self, author_key, n) ==
    Lookup(self, <<self.base_url>> \o str(author_key) \o <<".json">>,
           NoParams, "Searching for books by author", "json", n)

GoogleBooksAPI_isbn_search(self, isbn, n) ==
    Lookup(self, <<self.base_url, "/volumes?q=isbn:">> \o str(isbn),
           NoParams, "Searching for book with ISBN", "json", n)

NDLAPI_isbn_search(self, isbn, n) ==
    Lookup(self, <<self.base_url>>,
           <<<<"operation", <<"searchRetrieve">>>>,
             <<"query", <<"isbn=", "\"">> \o str(isbn) \o <<"\"">>>>,
             <<"recordPacking", <<"xml">>>>>>,
           "Searching for book with ISBN", "xml", n)

OpenBDAPI_isbn_search(self, isbn, n) ==
    Lookup(self, <<self.base_url, "/get">>, <<<<"isbn", str(isbn)>>>>,
           "Searching for book with ISBN", "json", n)

-----------------------------------------------------------------------------
(* The inputs the calls are made with.                                     *)

Base1 == <<"0", "3", "0", "6", "4", "0", "6", "1", "5">>

Base2 == <<"0", "8", "0", "4", "4", "2", "9", "5", "7">>

FreeDigits == {AsciiDigits[i + 1] : i \in 0..MaxDigit}

\* nine digit bodies: Base1 with its last three digits free, Base2 with its
\* first two digits free
Bodies ==
    {[i \in 1..9 |-> IF i >= 7 THEN t[i - 6] ELSE Base1[i]] :
        t \in [1..3 -> FreeDigits]}
    \cup
    {[i \in 1..9 |-> IF i <= 2 THEN t[i] ELSE Base2[i]] :
        t \in [1..2 -> FreeDigits]}

CheckChars == AsciiDigitSet \cup {"X"}

\* every body with every check character, right or wrong
Isbn10Inputs == {b \o <<c>> : b \in Bodies, c \in CheckChars}

Isbn13Inputs ==
    {p \o b \o <<c>> :
        p \in {<<"9", "7", "8">>, <<"9", "7", "9">>}, b \in Bodies,
        c \in CheckChars}

ShortAlphabet == {"1", "X", "-"}

ShortInputs == UNION {[1..n -> ShortAlphabet] : n \in 0..MaxShortLen}

DecoratedInputs ==
    { <<"0", "-", "3", "0", "6", "-", "4", "0", "6", "1", "5", "-", "2">>,
      <<"9", "7", "8", "-", "0", "-", "3", "0", "6", "-", "4", "0", "6", "1",
        "5", "-", "3">>,
      <<"9", "7", "8", "-", "0", "-", "3", "0", "6", "-", "4", "0", "6", "1",
        "5", "-", "7">>,
      <<"0", "-", "8", "0", "4", "4", "-", "2", "9", "5", "7", "-", "X">>,
      <<"I", "S", "B", "N", " ", "0", "8", "0", "4", "4", "2", "9", "5", "7",
        "X">>,
      <<"0", "3", "X", "0", "6", "4", "0", "6", "1", "5", "2">>,
      <<"0", "3", "0", "6", "4", "0", "6", "1", "5", "2", "X">>,
      <<"0", "U+0663", "0", "6", "4", "0", "6", "1", "5", "2">>,
      <<"9", "7", "8", "0", "U+0663", "0", "6", "4", "0", "6", "1", "5", "3">>,
      <<"9", "7", "8", "0", "3", "0", "6", "4", "0", "6", "1", "5", "U+0663">>,
      <<"9", "7", "8", "0", "3", "0", "6", "4", "0", "6", "1", "5", "3", "0">>,
      <<"9", "7", "8", "0", "3", "0", "6", "4", "0", "6", "1", "5">>,
      <<"-", "-", "-">>, <<" ">>, <<"X", "X">> }

IntInputs ==
    {PyInt(neg, mag) :
        neg \in BOOLEAN,
        mag \in { <<9, 7, 8, 0, 3, 0, 6, 4, 0, 6, 1, 5, 7>>,
                  <<9, 7, 8, 0, 3, 0, 6, 4, 0, 6, 1, 5, 3>>,
                  <<9, 7, 9, 0, 3, 0, 6, 4, 0, 6, 1, 5, 3>>,
                  <<3, 0, 6, 4, 0, 6, 1, 5, 2>>,
                  <<1, 8, 0, 4, 4, 2, 9, 5, 7, 4>>,
                  <<9, 7, 8, 0, 3, 0, 6, 4, 0, 6, 1, 5, 3, 0>>,
                  <<7>> }}
    \cup {PyInt(FALSE, <<0>>)}

StrInputs ==
    {PyStr(s) : s \in Isbn10Inputs \cup Isbn13Inputs \cup ShortInputs
                      \cup DecoratedInputs}

Inputs == StrInputs \cup IntInputs \cup {PyTrue, PyNone}

\* what the lookups are called with
LookupInputs ==
    {PyStr(<<"9", "7", "8", "0", "3", "0", "6", "4", "0", "6", "1", "5", "3">>),
     PyStr(<<"/", "a", "u", "t", "h", "o", "r", "s", "/", "O", "L", "1", "A">>),
     PyInt(FALSE, <<3, 0, 6, 4, 0, 6, 1, 5, 2>>)}

Clients == {NewClient(p, 1, v) : p \in Providers, v \in BOOLEAN}

-----------------------------------------------------------------------------
(* The converter, called on one input.                                     *)

Init ==
    /\ fn = "none"
    /\ arg \in Inputs
    /\ result = NoResult
    /\ client = NewClient("OpenLibraryAPI", 1, FALSE)
    /\ net = NoNet
    /\ gets = <<>>
    /\ log = <<>>

Call_only_number ==
    /\ IsInstanceStr(arg)
    /\ fn' = "only_number"
    /\ result' = only_number(arg.s)
    /\ UNCHANGED <<arg, client, net, gets, log>>

Call_isbn10_to_isbn13 ==
    /\ fn' = "isbn10_to_isbn13"
    /\ result' = isbn10_to_isbn13(arg)
    /\ UNCHANGED <<arg, client, net, gets, log>>

Call_isbn13_to_isbn10 ==
    /\ fn' = "isbn13_to_isbn10"
    /\ result' = isbn13_to_isbn10(arg)
    /\ UNCHANGED <<arg, client, net, gets, log>>

Call_calc_both_isbn ==
    /\ fn' = "calc_both_isbn"
    /\ result' = calc_both_isbn(arg)
    /\ UNCHANGED <<arg, client, net, gets, log>>

Next ==
    \/ Call_only_number
    \/ Call_isbn10_to_isbn13
    \/ Call_isbn13_to_isbn10
    \/ Call_calc_both_isbn

Spec == Init /\ [][Next]_vars

-----------------------------------------------------------------------------
(* The provider clients, each lookup against every answer of the network.  *)

InitProviders ==
    /\ fn = "none"
    /\ arg \in LookupInputs
    /\ result = NoResult
    /\ client \in Clients
    /\ net = NoNet
    /\ gets = <<>>
    /\ log = <<>>

Done(name, n, out) ==
    /\ fn' = name
    /\ net' = n
    /\ result' = out.result
    /\ gets' = out.gets
    /\ log' = out.log
    /\ UNCHANGED <<arg, client>>

Call_OpenLibraryAPI_isbn_search ==
    /\ client.provider = "OpenLibraryAPI"
    /\ \E n \in NetOutcomes :
          Done("OpenLibraryAPI.isbn_search", n,
               OpenLibraryAPI_isbn_search(client, arg, n))

Call_OpenLibraryAPI_author_search ==
    /\ client.provider = "OpenLibraryAPI"
    /\ \E n \in NetOutcomes :
          Done("OpenLibraryAPI.author_search", n,
               OpenLibraryAPI_author_search(client, arg, n))

Call_GoogleBooksAPI_isbn_search ==
    /\ client.provider = "GoogleBooksAPI"
    /\ \E n \in NetOutcomes :
          Done("GoogleBooksAPI.isbn_search", n,
               GoogleBooksAPI_isbn_search(client, arg, n))

Call_NDLAPI_isbn_search ==
    /\ client.provider = "NDLAPI"
    /\ \E n \in NetOutcomes :
          Done("NDLAPI.isbn_search", n, NDLAPI_isbn_search(client, arg, n))

Call_OpenBDAPI_isbn_search ==
    /\ client.provider = "OpenBDAPI"
    /\ \E n \in NetOutcomes :
          Done("OpenBDAPI.isbn_search", n, OpenBDAPI_isbn_search(client, arg, n))

NextProviders ==
    \/ Call_OpenLibraryAPI_isbn_search
    \/ Call_OpenLibraryAPI_author_search
    \/ Call_GoogleBooksAPI_isbn_search
    \/ Call_NDLAPI_isbn_search
    \/ Call_OpenBDAPI_isbn_search

SpecProviders == InitProviders /\ [][NextProviders]_vars

-----------------------------------------------------------------------------
(* What the checksum schemes say, stated apart from the loops above.       *)

RECURSIVE Dot(_, _)
Dot(ds, ws) ==
    IF ds = <<>> THEN 0 ELSE Head(ds) * Head(ws) + Dot(Tail(ds), Tail(ws))

CharVal(c) == IF c = "X" THEN 10 ELSE int(c)

Vals(x) == [i \in 1..Len(x) |-> CharVal(x[i])]

Weights10 == <<10, 9, 8, 7, 6, 5, 4, 3, 2, 1>>

Weights13 == <<1, 3, 1, 3, 1, 3, 1, 3, 1, 3, 1, 3, 1>>

\* A valid ISBN-10: nine decimal digits and the check character, an ASCII
\* digit or "X", that makes the weighted sum a multiple of 11.
ValidIsbn10(x) ==
    /\ Len(x) = 10
    /\ \A i \in 1..9 : x[i] \in DecimalChars
    /\ x[10] \in CheckChars
    /\ Dot(Vals(x), Weights10) % 11 = 0

\* A valid ISBN-13 of the 978 range: twelve decimal digits that start with
\* 978 and the ASCII check digit that makes the weighted sum a multiple of 10.
ValidIsbn13(y) ==
    /\ Len(y) = 13
    /\ \A i \in 1..12 : y[i] \in DecimalChars
    /\ y[13] \in AsciiDigitSet
    /\ startswith978(y)
    /\ Dot(Vals(y), Weights13) % 10 = 0

\* the normalized form of an input, where it has one
HasNorm(v) == only_number(str(v)).kind = "return"

Norm(v) == only_number(str(v)).val

HasNormLen(v, k) == HasNorm(v) /\ Len(Norm(v)) = k

AllDecimal(s) == \A i \in 1..Len(s) : s[i] \in DecimalChars

Isbn0306406152 == <<"0", "3", "0", "6", "4", "0", "6", "1", "5", "2">>

Isbn9780306406153 ==
    <<"9", "7", "8", "0", "3", "0", "6", "4", "0", "6", "1", "5", "3">>

Isbn9780306406157 ==
    <<"9", "7", "8", "0", "3", "0", "6", "4", "0", "6", "1", "5", "7">>

-----------------------------------------------------------------------------
\* C1: converting a valid ISBN-10 to ISBN-13 and back gives the ISBN-10
\* again: isbn13_to_isbn10(isbn10_to_isbn13(x)) = x.
C1_RoundTrip10 ==
    (fn = "isbn10_to_isbn13" /\ IsInstanceStr(arg) /\ ValidIsbn10(arg.s))
        => /\ result.kind = "return"
           /\ isbn13_to_isbn10(PyStr(result.val)) = Return(arg.s)

\* a valid ISBN-10 with check character X has been converted
C1_Witness ==
    /\ fn = "isbn10_to_isbn13"
    /\ IsInstanceStr(arg)
    /\ ValidIsbn10(arg.s)
    /\ arg.s[10] = "X"
    /\ result.kind = "return"

\* what C2 says of every input whose normalized form has length 10
C2_General ==
    (fn = "isbn10_to_isbn13" /\ HasNormLen(arg, 10))
        => LET body == <<"9", "7", "8">> \o SubSeq(Norm(arg), 1, 9)
               s == Dot(Vals(body), SubSeq(Weights13, 1, 12))
               c == (10 - (s % 10)) % 10
           IN  /\ result = Return(body \o <<AsciiDigits[c + 1]>>)
               /\ Len(result.val) = 13
               /\ AllDecimal(result.val)

\* C2 as stated: on an input whose normalized form has length 10,
\* isbn10_to_isbn13 returns 13 decimal characters: 978, the first 9
\* characters of the normalized input, and the check digit
\* (10 - (s mod 10)) mod 10 of the 1,3-weighted sum s of those 12; in
\* particular "0306406152" gives "9780306406153".
C2_Original ==
    /\ C2_General
    /\ (fn = "isbn10_to_isbn13" /\ arg = PyStr(Isbn0306406152))
          => result = Return(Isbn9780306406153)

\* C2 as amended: the same, and "0306406152" gives "9780306406157", the
\* value the stated check digit formula yields.
C2_Isbn10ToIsbn13 ==
    /\ C2_General
    /\ (fn = "isbn10_to_isbn13" /\ arg = PyStr(Isbn0306406152))
          => result = Return(Isbn9780306406157)

\* the known vector, written with hyphens, has been converted
C2_Witness ==
    /\ fn = "isbn10_to_isbn13"
    /\ arg = PyStr(<<"0", "-", "3", "0", "6", "-", "4", "0", "6", "1", "5",
                     "-", "2">>)
    /\ HasNormLen(arg, 10)
    /\ result = Return(Isbn9780306406157)

\* C3: on an input whose normalized form has length 13 and starts with 978,
\* isbn13_to_isbn10 returns 10 characters: the characters at positions 3..11
\* and the check character of c = (11 - (s mod 11)) mod 11, s the sum of the
\* 9 body digits weighted 10 - position; the character is X exactly when c
\* is 10 and the decimal digit c otherwise.
C3_Isbn13ToIsbn10 ==
    (fn = "isbn13_to_isbn10" /\ HasNormLen(arg, 13) /\ startswith978(Norm(arg)))
        => LET body == SubSeq(Norm(arg), 4, 12)
               s == Dot(Vals(body), SubSeq(Weights10, 1, 9))
               c == (11 - (s % 11)) % 11
           IN  /\ result.kind = "return"
               /\ Len(result.val) = 10
               /\ SubSeq(result.val, 1, 9) = body
               /\ (result.val[10] = "X") <=> (c = 10)
               /\ c # 10 => result.val[10] = AsciiDigits[c + 1]

\* an ISBN-13 whose ISBN-10 check digit computes to 10 has been converted
C3_Witness ==
    /\ fn = "isbn13_to_isbn10"
    /\ HasNormLen(arg, 13)
    /\ startswith978(Norm(arg))
    /\ result.kind = "return"
    /\ result.val[10] = "X"

\* C4: for an input of length >= 1, only_number applied to the result of
\* only_number returns, and returns that same result.
C4_Idempotent ==
    (fn = "only_number" /\ Len(arg.s) >= 1)
        => /\ result.kind = "return"
           /\ only_number(result.val) = result

\* C5: an input whose length after normalization is not 10 or 13, the empty
\* string included, makes isbn10_to_isbn13, isbn13_to_isbn10 and
\* calc_both_isbn raise ValueError and nothing else.
C5_InvalidLength ==
    (/\ fn \in {"isbn10_to_isbn13", "isbn13_to_isbn10", "calc_both_isbn"}
     /\ \/ str(arg) = <<>>
        \/ HasNorm(arg) /\ Len(Norm(arg)) \notin {10, 13})
        => /\ result.kind = "raise"
           /\ result.exc = "ValueError"

\* C6: an input whose normalized form has length 13 and does not start with
\* 978 makes isbn13_to_isbn10 raise ValueError, and calc_both_isbn raise it
\* too instead of returning a pair.
C6_Non978Rejected ==
    (/\ fn \in {"isbn13_to_isbn10", "calc_both_isbn"}
     /\ fn = "calc_both_isbn" => (IsInstanceInt(arg) \/ IsInstanceStr(arg))
     /\ HasNormLen(arg, 13)
     /\ ~startswith978(Norm(arg)))
        => result = Raise("ValueError", "isbn13 format")

\* calc_both_isbn has been called on a 13 digit input of the 979 range
C6_Witness ==
    /\ fn = "calc_both_isbn"
    /\ HasNormLen(arg, 13)
    /\ SubSeq(Norm(arg), 1, 3) = <<"9", "7", "9">>
    /\ result.kind = "raise"

\* C7: calc_both_isbn turns an int into its decimal string and refuses what
\* is neither str nor int; with n the normalized input, length 10 gives the
\* pair (n, isbn10_to_isbn13(n)) and length 13 the pair
\* (isbn13_to_isbn10(n), n); the first component is the ISBN-10 and the
\* second the ISBN-13.
C7_Dispatch ==
    fn = "calc_both_isbn" =>
        /\ (~IsInstanceInt(arg) /\ ~IsInstanceStr(arg))
              => result = Raise("ValueError", "str or int required")
        /\ ((IsInstanceInt(arg) \/ IsInstanceStr(arg)) /\ HasNormLen(arg, 10))
              => LET n == Norm(arg)
                     r == isbn10_to_isbn13(PyStr(n))
                 IN  r.kind = "return" /\ result = Return(<<n, r.val>>)
        /\ ((IsInstanceInt(arg) \/ IsInstanceStr(arg)) /\ HasNormLen(arg, 13))
              => LET n == Norm(arg)
                     r == isbn13_to_isbn10(PyStr(n))
                 IN  IF r.kind = "return" THEN result = Return(<<r.val, n>>)
                     ELSE result = r
        /\ result.kind = "return"
              => Len(result.val[1]) = 10 /\ Len(result.val[2]) = 13
        /\ arg = PyInt(FALSE, <<9, 7, 8, 0, 3, 0, 6, 4, 0, 6, 1, 5, 7>>)
              => result = Return(<<Isbn0306406152, Isbn9780306406157>>)
        /\ arg = PyInt(TRUE, <<1, 8, 0, 4, 4, 2, 9, 5, 7, 4>>)
              => /\ result.kind = "return"
                 /\ result.val[1] =
                      <<"1", "8", "0", "4", "4", "2", "9", "5", "7", "4">>

\* calc_both_isbn has returned a pair for an int of 13 digits
C7_Witness ==
    /\ fn = "calc_both_isbn"
    /\ arg.type = "int"
    /\ HasNormLen(arg, 13)
    /\ result.kind = "return"

\* C8: every lookup issues exactly one GET and then returns None on a
\* timeout, a connection failure, any other exception of the request or a
\* status other than 200, and the parsed response body on status 200.
C8_Lookup ==
    fn # "none" =>
        /\ Len(gets) = 1
        /\ (net.outcome # "response" \/ net.status # 200)
              => result = Return(None)
        /\ (net.outcome = "response" /\ net.status = 200)
              => result = Return(net.doc)

\* the valid ISBN-13 values among the inputs, and what each converts to
ValidIsbn13Set == {y \in Isbn13Inputs \cup DecoratedInputs : ValidIsbn13(y)}

Isbn10Of == [y \in ValidIsbn13Set |-> isbn13_to_isbn10(PyStr(y))]

\* C9: converting a valid 978 ISBN-13 to ISBN-10 and back gives the ISBN-13
\* again, and no other valid 978 ISBN-13 converts to the same ISBN-10.
C9_Bijection978 ==
    (fn = "isbn13_to_isbn10" /\ IsInstanceStr(arg) /\ ValidIsbn13(arg.s))
        => /\ result.kind = "return"
           /\ isbn10_to_isbn13(PyStr(result.val)) = Return(arg.s)
           /\ \A y \in ValidIsbn13Set : y # arg.s => Isbn10Of[y] # result

\* a valid 978 ISBN-13 has been converted, with others to compare it with
C9_Witness ==
    /\ fn = "isbn13_to_isbn10"
    /\ IsInstanceStr(arg)
    /\ ValidIsbn13(arg.s)
    /\ result.kind = "return"
    /\ Cardinality(ValidIsbn13Set) > 1

\* C10: when calc_both_isbn returns (a, b), b is 13 decimal characters that
\* start with 978, isbn10_to_isbn13(a) = b and isbn13_to_isbn10(b) = a.
C10_PairConsistent ==
    (fn = "calc_both_isbn" /\ result.kind = "return")
        => LET a == result.val[1]
               b == result.val[2]
           IN  /\ Len(b) = 13
               /\ AllDecimal(b)
               /\ startswith978(b)
               /\ isbn10_to_isbn13(PyStr(a)) = Return(b)
               /\ isbn13_to_isbn10(PyStr(b)) = Return(a)

====
